---- MODULE Spec2Model ----
(***************************************************************************)
(* Model of plnx-grabber (plnxgrabber/__init__.py): the chunked,           *)
(* backwards-walking trade-history grabber.                                *)
(*                                                                         *)
(*   Grabber.grab   one call = GrabCall (prologue, lines 472-518) followed *)
(*                  by one GrabIterate per upstream fetch (lines 524-663); *)
(*                  the iteration that leaves the loop also runs the       *)
(*                  post-loop collection check (lines 665-675).            *)
(*   Grabber.one    the range planner, calling grab for tail / head / full *)
(*   Grabber.row    one for each pair of a list; what one raises leaves it *)
(*   get_chunk      the fetch: any exception inside it gives an empty frame*)
(*   Grabber.ring   row over the pairs again and again, up to now          *)
(*   verify_history_df  the density check of one dataframe                 *)
(*   TradeHistMongo the archive: per pair a collection keyed by _id        *)
(*                                                                         *)
(* A dataframe is a sequence of rows [id, ts, val]; (id, ts) is the frame's*)
(* index and val stands for its columns (amount, globalid, rate, total,    *)
(* type): NaN when one of them could not be parsed.                        *)
(***************************************************************************)
EXTENDS Integers, Sequences, FiniteSets, TLC

VARIABLES
    db,        \* the MongoDB database: pair -> [exists, docs]
    feed,      \* the exchange's trade log: feed[i] is the timestamp of trade id i
    order,     \* the order in which a well-behaved exchange lists a response
    pc,        \* where the running call stands: idle / loop / returned / raised
    g,         \* grab's frame: arguments, window, recording, anything_recorded
    o,         \* one's frame: arguments, the bounds read at line 725, stage
    err,       \* the exception that ended the call ("" when none)
    pre,       \* history: the pair's documents when grab was called
    commits,   \* history: every dataframe handed to insert_docs by this grab
    inw,       \* history: every response so far lay inside the requested window
    colcheck,  \* history: outcome of the post-loop verify_history_col, if run
    calls,     \* history: the finished top-level calls of one
    fetches,   \* history: the fetches made by the running grab, up to MaxFetches
    lastsite,  \* history: where the last pass through grab's loop body ended, or
               \* "upstream_error" when its fetch ended in get_chunk's except clause
    rw,        \* row's frame: its arguments and its position in the list of pairs
    cancel     \* whether the caller has asked the running grab to stop

vars == <<db, feed, order, pc, g, o, err, pre, commits, inw, colcheck, calls, fetches, lastsite, rw,
         cancel>>

----------------------------------------------------------------------------
(* Bounds of the model *)

\* trade ids are 1..MaxId
MaxId == 3
\* an arbitrary upstream response holds at most MaxLen rows
MaxLen == 2
\* timestamps passed by callers are 0..MaxTs months
MaxTs == 2
\* a stored series present before the first call holds at most MaxPre documents
MaxPre == 2
\* SpecWide: trade ids are 1..WideId and a response holds at most WideLen rows
WideId == 5
WideLen == 3
\* SpecOne: the exchange has listed at most MaxFeed trades, at timestamps of
\* 0..MaxFeedTs half windows, and answers with at most Cap of them
MaxFeed == 3
MaxFeedTs == 4
Cap == 2
\* SpecArchive: the calls of create_col
MaxOps == 2
\* SpecRing: the turns of ring's loop
MaxRing == 2
\* SpecOne: the fetches of one grab are counted up to MaxFetches
MaxFetches == MaxFeed + MaxFeedTs + 3

----------------------------------------------------------------------------
(* Time: TimePeriod and the clock *)

SECOND == 1
MINUTE == 60 * SECOND
HOUR == 60 * MINUTE
DAY == 24 * HOUR
MONTH == 30 * DAY

\* grab's max_window_size
max_window_size == MONTH

\* The timestamps callers pass lie on a grid of one window.
Stamps == {k * MONTH : k \in 0..MaxTs}

\* now_ts(): the clock reads the end of the grid
now_ts == MaxTs * MONTH

\* Python's None for an omitted numeric argument
None == -1

Max(a, b) == IF a >= b THEN a ELSE b

SetMin(S) == CHOOSE x \in S : \A y \in S : x <= y

SetMax(S) == CHOOSE x \in S : \A y \in S : x >= y

----------------------------------------------------------------------------
(* Dataframes *)

\* the NaN a column holds when a field could not be parsed
NaN == 0

Row(i, t, v) == [id |-> i, ts |-> t, val |-> v]

\* index_by_name(df, '_id') as a set
IdsOf(df) == {df[k].id : k \in DOMAIN df}

TsOf(df) == {df[k].ts : k \in DOMAIN df}

\* df[index_by_name(df, '_id') < x]: boolean-mask filters keep the row order
FilterIdLt(df, x) == SelectSeq(df, LAMBDA r : r.id < x)

FilterIdGt(df, x) == SelectSeq(df, LAMBDA r : r.id > x)

FilterTsGe(df, t) == SelectSeq(df, LAMBDA r : r.ts >= t)

\* df.dropna(): rows with a NaN column are dropped
dropna(df) == SelectSeq(df, LAMBDA r : r.val # NaN)

\* df.drop_duplicates(): compares the columns only (the index is ignored) and
\* keeps the first of equal rows
drop_duplicates(df) ==
    LET keep == {k \in DOMAIN df : \A j \in 1..(k - 1) : df[j].val # df[k].val}
    IN  [n \in 1..Cardinality(keep) |->
            df[CHOOSE k \in keep : Cardinality({j \in keep : j < k}) = n - 1]]

\* df_history_info: orientation from the first and the last row only
df_history_info(df) ==
    LET first == df[1]
        last == df[Len(df)]
        from_r == IF first.id > last.id THEN last ELSE first
        to_r == IF first.id < last.id THEN last ELSE first
    IN  [from_ts |-> from_r.ts, from_id |-> from_r.id,
         to_ts |-> to_r.ts, to_id |-> to_r.id, count |-> Len(df)]

\* mutant: the + 1 of the density formula is forgotten
verify_history_df_off_by_one(df) ==
    LET history_info == df_history_info(df)
        diff == history_info.count - (history_info.to_id - history_info.from_id)
    IN  diff = 0

verify_history_df(df) ==
    LET history_info == df_history_info(df)
        diff == history_info.count - (history_info.to_id - history_info.from_id + 1)
    IN  diff = 0

----------------------------------------------------------------------------
(* TradeHistMongo *)

Pairs == {"USDT_BTC", "USDT_ETH"}

NoCol == [exists |-> FALSE, docs |-> {}]

col_list(d) == {p \in Pairs : d[p].exists}

\* create_col -> create_collection, which raises CollectionInvalid when the
\* collection already exists, then create_index on ts
create_col(d, cname) ==
    IF cname \in col_list(d)
    THEN [db |-> d, err |-> "COLLECTION_EXISTS"]
    ELSE [db |-> [d EXCEPT ![cname] = [exists |-> TRUE, docs |-> {}]], err |-> ""]

\* mutant: the drop takes every collection of the database with it
drop_col_every(d, cname) == [p \in Pairs |-> NoCol]

drop_col(d, cname) == [d EXCEPT ![cname] = NoCol]

col_count(d, cname) == Cardinality(d[cname].docs)

col_non_empty(d, cname) == cname \in col_list(d) /\ col_count(d, cname) > 0

\* from_doc: find().sort(_id ascending).limit(1)
from_doc(d, cname) ==
    CHOOSE r \in d[cname].docs : \A s \in d[cname].docs : r.id <= s.id

\* to_doc: find().sort(_id descending).limit(1)
to_doc(d, cname) ==
    CHOOSE r \in d[cname].docs : \A s \in d[cname].docs : r.id >= s.id

col_history_info(d, cname) ==
    [from_ts |-> from_doc(d, cname).ts, from_id |-> from_doc(d, cname).id,
     to_ts |-> to_doc(d, cname).ts, to_id |-> to_doc(d, cname).id,
     count |-> col_count(d, cname)]

\* mutant: only duplicates are reported, gaps pass
verify_history_col_gaps_pass(d, cname) ==
    LET history_info == col_history_info(d, cname)
        diff == history_info.count - (history_info.to_id - history_info.from_id + 1)
    IN  diff <= 0

verify_history_col(d, cname) ==
    LET history_info == col_history_info(d, cname)
        diff == history_info.count - (history_info.to_id - history_info.from_id + 1)
    IN  diff = 0

\* mutant: no unique index on _id, every document goes in
InsertOrdered_no_unique_index(docs, df) ==
    [docs |-> docs \cup {df[k] : k \in DOMAIN df}, ok |-> TRUE]

\* insert_docs -> insert_many (ordered): documents go in one by one, in the
\* frame's order; the first _id already present stops the insert with a
\* duplicate-key error and the documents before it stay inserted.
InsertOrdered(docs, df) ==
    LET clash == {k \in DOMAIN df :
                    \/ \E r \in docs : r.id = df[k].id
                    \/ \E j \in 1..(k - 1) : df[j].id = df[k].id}
        stop == IF clash = {} THEN Len(df) + 1 ELSE SetMin(clash)
    IN  [docs |-> docs \cup {df[k] : k \in 1..(stop - 1)}, ok |-> clash = {}]

insert_docs(d, cname, df) ==
    LET res == InsertOrdered(d[cname].docs, df)
    IN  [db |-> [d EXCEPT ![cname] = [exists |-> TRUE, docs |-> res.docs]],
         ok |-> res.ok]

----------------------------------------------------------------------------
(* Grabber.grab *)

\* mutant: the ids are not compared before the loop
grab_ids_unchecked(d, pair, from_ts, from_id, to_ts, to_id) ==
    LET d1 == IF col_non_empty(d, pair) THEN d
              ELSE IF pair \notin col_list(d) THEN create_col(d, pair).db ELSE d
        from_ts1 == IF from_ts = None THEN 0 ELSE from_ts
        to_ts1 == IF to_ts = None THEN now_ts ELSE to_ts
        frame == [pair |-> pair,
                  args |-> [from_ts |-> from_ts, from_id |-> from_id,
                            to_ts |-> to_ts, to_id |-> to_id],
                  from_ts |-> from_ts1, from_id |-> from_id,
                  to_ts |-> to_ts1, to_id |-> to_id,
                  window |-> [from_ts |-> Max(to_ts1 - max_window_size, from_ts1),
                              to_ts |-> to_ts1,
                              anchor_id |-> None],
                  recording |-> (to_id = None),
                  anything_recorded |-> FALSE]
    IN  IF to_ts1 <= from_ts1
        THEN [db |-> d1, g |-> frame, pc |-> "raised", err |-> "BAD_RANGE"]
        ELSE [db |-> d1, g |-> frame, pc |-> "loop", err |-> ""]

\* lines 472-518: the collection is created when absent, the dates default,
\* the range checks raise, the window and the flags are initialised
grab(d, pair, from_ts, from_id, to_ts, to_id) ==
    LET d1 == IF col_non_empty(d, pair) THEN d
              ELSE IF pair \notin col_list(d) THEN create_col(d, pair).db ELSE d
        from_ts1 == IF from_ts = None THEN 0 ELSE from_ts
        to_ts1 == IF to_ts = None THEN now_ts ELSE to_ts
        frame == [pair |-> pair,
                  args |-> [from_ts |-> from_ts, from_id |-> from_id,
                            to_ts |-> to_ts, to_id |-> to_id],
                  from_ts |-> from_ts1, from_id |-> from_id,
                  to_ts |-> to_ts1, to_id |-> to_id,
                  window |-> [from_ts |-> Max(to_ts1 - max_window_size, from_ts1),
                              to_ts |-> to_ts1,
                              anchor_id |-> None],
                  recording |-> (to_id = None),
                  anything_recorded |-> FALSE]
    IN  IF to_ts1 <= from_ts1
        THEN [db |-> d1, g |-> frame, pc |-> "raised", err |-> "BAD_RANGE"]
        ELSE IF from_id # None /\ to_id # None /\ to_id <= from_id
             THEN [db |-> d1, g |-> frame, pc |-> "raised", err |-> "BAD_RANGE"]
             ELSE [db |-> d1, g |-> frame, pc |-> "loop", err |-> ""]

\* what one pass through the loop body decides
Outcome(kind, site, gg, df) == [kind |-> kind, site |-> site, g |-> gg, df |-> df]

\* mutant: the next window reaches down to from_ts whatever its size
MoveWindow_whole_range(gg, t) ==
    [gg EXCEPT !.window = [@ EXCEPT !.from_ts = gg.from_ts, !.to_ts = t]]

\* the window for the next fetch, ending at timestamp t
MoveWindow(gg, t) ==
    [gg EXCEPT !.window = [@ EXCEPT !.from_ts = Max(t - max_window_size, gg.from_ts),
                                    !.to_ts = t]]

\* mutant: a chunk that fails verify_history_df is recorded all the same
NormalCommit_broken_recorded(gg, df) ==
    LET df1 == dropna(df)
        df2 == drop_duplicates(df1)
    IN  IF df1 = <<>> THEN Outcome("break", "nothing", gg, <<>>)
        ELSE IF df2 = <<>> THEN Outcome("break", "nothing", gg, <<>>)
        ELSE IF ~verify_history_df(df2) THEN Outcome("insert_break", "broken", gg, df2)
        ELSE Outcome("insert_continue", "commit", gg, df2)

\* lines 634-655: record data
NormalCommit(gg, df) ==
    LET df1 == dropna(df)
        df2 == drop_duplicates(df1)
    IN  IF df1 = <<>> THEN Outcome("break", "nothing", gg, <<>>)
        ELSE IF df2 = <<>> THEN Outcome("break", "nothing", gg, <<>>)
        ELSE IF ~verify_history_df(df2) THEN Outcome("break", "broken", gg, <<>>)
        ELSE Outcome("insert_continue", "commit", gg, df2)

\* mutant: the start id itself is kept (>= for >)
StartIdReached_inclusive(gg, df) ==
    LET df1 == SelectSeq(df, LAMBDA r : r.id >= gg.from_id)
    IN  IF df1 = <<>> THEN Outcome("break", "start_id", gg, <<>>)
        ELSE IF verify_history_df(df1) THEN Outcome("insert_break", "start_id", gg, df1)
        ELSE Outcome("break", "start_id", gg, <<>>)

\* lines 609-619: the chunk holds the start id
StartIdReached(gg, df) ==
    LET df1 == FilterIdGt(df, gg.from_id)
    IN  IF df1 = <<>> THEN Outcome("break", "start_id", gg, <<>>)
        ELSE IF verify_history_df(df1) THEN Outcome("insert_break", "start_id", gg, df1)
        ELSE Outcome("break", "start_id", gg, <<>>)

\* lines 622-632: the chunk holds the start date
StartDateReached(gg, df) ==
    LET df1 == FilterTsGe(df, gg.from_ts)
    IN  IF df1 = <<>> THEN Outcome("break", "start_ts", gg, <<>>)
        ELSE IF verify_history_df(df1) THEN Outcome("insert_break", "start_ts", gg, df1)
        ELSE Outcome("break", "start_ts", gg, <<>>)

\* lines 604-632: the elif belongs to `if from_id is not None`
FinishRecording(gg, df) ==
    IF gg.from_id # None
    THEN IF \E i \in IdsOf(df) : i <= gg.from_id
         THEN StartIdReached(gg, df)
         ELSE NormalCommit(gg, df)
    ELSE IF \E t \in TsOf(df) : t <= gg.from_ts
         THEN StartDateReached(gg, df)
         ELSE NormalCommit(gg, df)

\* mutant: the rows at and above the anchor are kept
AnchorSync_unfiltered(gg, df) ==
    IF gg.window.anchor_id # None
    THEN IF \E i \in IdsOf(df) : i >= gg.window.anchor_id
         THEN FinishRecording(gg, df)
         ELSE Outcome("break", "missing_anchor", gg, <<>>)
    ELSE FinishRecording(gg, df)

\* mutant: a chunk without the anchor is inserted all the same
AnchorSync_unanchored_insert(gg, df) ==
    IF gg.window.anchor_id # None
    THEN IF \E i \in IdsOf(df) : i >= gg.window.anchor_id
         THEN LET df1 == FilterIdLt(df, gg.window.anchor_id)
              IN  IF df1 = <<>> THEN Outcome("break", "nothing", gg, <<>>)
                  ELSE FinishRecording(gg, df1)
         ELSE Outcome("insert_break", "missing_anchor", gg, df)
    ELSE FinishRecording(gg, df)

\* lines 589-602: synchronise with the previous chunk by its oldest id
AnchorSync(gg, df) ==
    IF gg.window.anchor_id # None
    THEN IF \E i \in IdsOf(df) : i >= gg.window.anchor_id
         THEN LET df1 == FilterIdLt(df, gg.window.anchor_id)
              IN  IF df1 = <<>> THEN Outcome("break", "nothing", gg, <<>>)
                  ELSE FinishRecording(gg, df1)
         ELSE Outcome("break", "missing_anchor", gg, <<>>)
    ELSE FinishRecording(gg, df)

\* mutant: the end id itself is kept (<= for <)
SeekEndId_inclusive(gg, df) ==
    IF gg.to_id \in IdsOf(df)
    THEN LET g1 == [gg EXCEPT !.recording = TRUE]
             df1 == SelectSeq(df, LAMBDA r : r.id <= gg.to_id)
         IN  IF df1 = <<>> THEN Outcome("break", "nothing", g1, <<>>)
             ELSE AnchorSync(g1, df1)
    ELSE IF gg.from_id # None /\ \E i \in IdsOf(df) : i <= gg.from_id
         THEN Outcome("break", "seek_start_id", gg, <<>>)
         ELSE IF \E t \in TsOf(df) : t <= gg.from_ts
              THEN Outcome("break", "seek_start_ts", gg, <<>>)
              ELSE Outcome("continue", "seek",
                           MoveWindow(gg, df_history_info(df).from_ts), <<>>)

\* mutant: recording starts on a chunk that does not hold the end id
SeekEndId_unfound_records(gg, df) ==
    IF gg.to_id \in IdsOf(df)
    THEN LET g1 == [gg EXCEPT !.recording = TRUE]
             df1 == FilterIdLt(df, gg.to_id)
         IN  IF df1 = <<>> THEN Outcome("break", "nothing", g1, <<>>)
             ELSE AnchorSync(g1, df1)
    ELSE IF gg.from_id # None /\ \E i \in IdsOf(df) : i <= gg.from_id
         THEN Outcome("break", "seek_start_id", gg, <<>>)
         ELSE IF \E t \in TsOf(df) : t <= gg.from_ts
              THEN Outcome("break", "seek_start_ts", gg, <<>>)
              ELSE AnchorSync([gg EXCEPT !.recording = TRUE], df)

\* lines 552-585: look for the end id
SeekEndId(gg, df) ==
    IF gg.to_id \in IdsOf(df)
    THEN LET g1 == [gg EXCEPT !.recording = TRUE]
             df1 == FilterIdLt(df, gg.to_id)
         IN  IF df1 = <<>> THEN Outcome("break", "nothing", g1, <<>>)
             ELSE AnchorSync(g1, df1)
    ELSE IF gg.from_id # None /\ \E i \in IdsOf(df) : i <= gg.from_id
         THEN Outcome("break", "seek_start_id", gg, <<>>)
         ELSE IF \E t \in TsOf(df) : t <= gg.from_ts
              THEN Outcome("break", "seek_start_ts", gg, <<>>)
              ELSE Outcome("continue", "seek",
                           MoveWindow(gg, df_history_info(df).from_ts), <<>>)

\* mutant: an empty response ends the loop at once
EmptyChunk_gives_up(gg) == Outcome("break", "empty", gg, <<>>)

\* mutant: after an empty response the same window is asked for again
EmptyChunk_same_window(gg) ==
    IF gg.anything_recorded \/ gg.window.from_ts = gg.from_ts
    THEN Outcome("break", "empty", gg, <<>>)
    ELSE Outcome("continue", "empty", gg, <<>>)

\* lines 536-547: nothing returned
EmptyChunk(gg) ==
    IF gg.anything_recorded \/ gg.window.from_ts = gg.from_ts
    THEN Outcome("break", "empty", gg, <<>>)
    ELSE Outcome("continue", "empty", MoveWindow(gg, gg.window.from_ts), <<>>)

\* lines 536-655: the loop body up to the insert, for the chunk df that
\* get_chunk returned
LoopBody(gg, df) ==
    IF df = <<>> THEN EmptyChunk(gg)
    ELSE IF ~gg.recording THEN SeekEndId(gg, df)
    ELSE AnchorSync(gg, df)

\* mutant: the next window is not clamped to from_ts
NextChunk_unclamped(gg, df) ==
    LET history_info == df_history_info(df)
    IN  [gg EXCEPT !.window = [from_ts |-> history_info.from_ts - max_window_size,
                               to_ts |-> history_info.from_ts,
                               anchor_id |-> history_info.from_id]]

\* lines 657-663: continue with the next chunk
NextChunk(gg, df) ==
    LET history_info == df_history_info(df)
    IN  [gg EXCEPT !.window = [from_ts |-> Max(history_info.from_ts - max_window_size,
                                               gg.from_ts),
                               to_ts |-> history_info.from_ts,
                               anchor_id |-> history_info.from_id]]

Step(d, gg, p, e, c, h) ==
    [db |-> d, g |-> gg, pc |-> p, err |-> e, colcheck |-> c, handed |-> h]

\* mutant: the collection is not verified after recordings
PostLoop_unverified(d, gg, h) == Step(d, gg, "returned", "", "none", h)

\* lines 665-675: verify the collection after recordings
PostLoop(d, gg, h) ==
    IF gg.anything_recorded
    THEN IF verify_history_col(d, gg.pair)
         THEN Step(d, gg, "returned", "", "true", h)
         ELSE Step(d, gg, "raised", "CONSISTENCY_BROKEN", "false", h)
    ELSE Step(d, gg, "returned", "", "none", h)

\* mutant: anything_recorded is not set after the inserts that end the loop
Record_flag_forgotten(d, r) ==
    LET ins == insert_docs(d, r.g.pair, r.df)
        rec == [r.g EXCEPT !.anything_recorded = TRUE]
        h == <<[site |-> r.site, df |-> r.df]>>
    IN  CASE r.kind = "continue" -> Step(d, r.g, "loop", "", "none", <<>>)
          [] r.kind = "break" -> PostLoop(d, r.g, <<>>)
          [] r.kind = "insert_break" ->
                IF ins.ok THEN PostLoop(ins.db, r.g, h)
                ELSE Step(ins.db, r.g, "raised", "DUPLICATE", "none", h)
          [] r.kind = "insert_continue" ->
                IF ins.ok THEN Step(ins.db, NextChunk(rec, r.df), "loop", "", "none", h)
                ELSE Step(ins.db, r.g, "raised", "DUPLICATE", "none", h)

\* What follows the loop body's decision r: the insert it asks for (lines 617,
\* 630, 654) with anything_recorded set, then the next window or, when the
\* loop is left, the post-loop check. handed is the dataframe passed to
\* insert_docs, if any.
Record(d, r) ==
    LET ins == insert_docs(d, r.g.pair, r.df)
        rec == [r.g EXCEPT !.anything_recorded = TRUE]
        h == <<[site |-> r.site, df |-> r.df]>>
    IN  CASE r.kind = "continue" -> Step(d, r.g, "loop", "", "none", <<>>)
          [] r.kind = "break" -> PostLoop(d, r.g, <<>>)
          [] r.kind = "insert_break" ->
                IF ins.ok THEN PostLoop(ins.db, rec, h)
                ELSE Step(ins.db, r.g, "raised", "DUPLICATE", "none", h)
          [] r.kind = "insert_continue" ->
                IF ins.ok THEN Step(ins.db, NextChunk(rec, r.df), "loop", "", "none", h)
                ELSE Step(ins.db, r.g, "raised", "DUPLICATE", "none", h)

\* One iteration of grab's loop for the chunk df
GrabStep(d, gg, df) == Record(d, LoopBody(gg, df))

InWindow(gg, df) ==
    \A k \in DOMAIN df : gg.window.from_ts <= df[k].ts /\ df[k].ts <= gg.window.to_ts

----------------------------------------------------------------------------
(* The exchange *)

\* trade i as get_chunk delivers it (lines 406-420): _id, ts and clean columns
Trade(f, i) == Row(i, f[i], i)

\* An exchange under no obligation: any sequence of at most MaxLen trades, in
\* any order, with gaps and repeats, inside or outside the requested window.
\* The empty sequence is also what get_chunk returns after any exception.
AnyChunk(f, maxlen) ==
    UNION {[1..n -> {Trade(f, i) : i \in DOMAIN f}] : n \in 0..maxlen}

----------------------------------------------------------------------------
(* Specification Spec: one call of grab against an arbitrary exchange *)

\* the timestamp of trade i in Spec: ids 1, 2, 3, 4, ... at months 0, 0, 1, 1, ...
TradeTs(i) == ((i - 1) \div 2) * MONTH

SpecFeed == [i \in 1..MaxId |-> TradeTs(i)]

GrabPair == "USDT_BTC"

OtherPair == "USDT_ETH"

\* the series stored before the call: none, an empty collection, or up to
\* MaxPre trades (dense or with gaps)
InitCols ==
    {NoCol, [exists |-> TRUE, docs |-> {}]}
    \cup {[exists |-> TRUE, docs |-> {Trade(SpecFeed, i) : i \in S}] :
            S \in {T \in SUBSET (1..MaxId) : T # {} /\ Cardinality(T) <= MaxPre}}

OtherCol == [exists |-> TRUE, docs |-> {Trade(SpecFeed, 1), Trade(SpecFeed, 2)}]

NoGrab ==
    [pair |-> GrabPair,
     args |-> [from_ts |-> None, from_id |-> None, to_ts |-> None, to_id |-> None],
     from_ts |-> 0, from_id |-> None, to_ts |-> 0, to_id |-> None,
     window |-> [from_ts |-> 0, to_ts |-> 0, anchor_id |-> None],
     recording |-> FALSE, anything_recorded |-> FALSE]

NoInfo == [from_ts |-> 0, from_id |-> None, to_ts |-> 0, to_id |-> None, count |-> 0]

NoOne ==
    [active |-> FALSE, pair |-> GrabPair, from_ts |-> None, to_ts |-> None,
     drop |-> FALSE, rfrom_ts |-> 0, rto_ts |-> 0, history_info |-> NoInfo,
     head |-> FALSE, stage |-> "", docs0 |-> {}, handed |-> 0, fetched |-> FALSE]

\* no row is running
NoRow ==
    [stage |-> "", pairs |-> <<>>, idx |-> 0, from_ts |-> None, to_ts |-> None,
     drop |-> FALSE, err |-> "", base |-> 0]

Init ==
    /\ \E c \in InitCols : db = [p \in Pairs |-> IF p = GrabPair THEN c ELSE OtherCol]
    /\ feed = SpecFeed
    /\ order = "desc"
    /\ pc = "idle"
    /\ g = NoGrab
    /\ o = NoOne
    /\ err = ""
    /\ pre = {}
    /\ commits = <<>>
    /\ inw = TRUE
    /\ colcheck = "none"
    /\ calls = <<>>
    /\ fetches = 0
    /\ lastsite = ""
    /\ rw = NoRow
    /\ cancel = FALSE

OptStamps == {None} \cup Stamps

OptIds(f) == {None} \cup DOMAIN f

\* grab(pair, from_ts, from_id, to_ts, to_id) is entered on the database d
EnterGrab(d, pair, from_ts, from_id, to_ts, to_id) ==
    \E s \in {grab(d, pair, from_ts, from_id, to_ts, to_id)} :
        /\ db' = s.db
        /\ g' = s.g
        /\ pc' = s.pc
        /\ err' = s.err
        /\ pre' = d[pair].docs
        /\ commits' = <<>>
        /\ inw' = TRUE
        /\ colcheck' = "none"
        /\ fetches' = 0
        /\ lastsite' = ""

\* the caller invokes grab(pair, from_ts, from_id, to_ts, to_id)
GrabCall ==
    /\ pc = "idle"
    /\ \E from_ts \in OptStamps, to_ts \in OptStamps,
          from_id \in OptIds(feed), to_id \in OptIds(feed) :
          EnterGrab(db, GrabPair, from_ts, from_id, to_ts, to_id)
    /\ UNCHANGED <<feed, order, o, calls, rw, cancel>>

\* one pass through grab's loop on the chunk df, ending at site
IterateAt(df, site) ==
    \E s \in {GrabStep(db, g, df)} :
        /\ db' = s.db
        /\ g' = s.g
        /\ pc' = s.pc
        /\ err' = s.err
        /\ colcheck' = s.colcheck
        /\ commits' = commits \o s.handed
        /\ inw' = (inw /\ InWindow(g, df))
        /\ lastsite' = site
        /\ UNCHANGED <<feed, order, pre>>

\* one pass through grab's loop on the chunk df
Iterate(df) == IterateAt(df, LoopBody(g, df).site)

GrabIterate ==
    /\ pc = "loop"
    /\ \E df \in AnyChunk(feed, MaxLen) : Iterate(df)
    /\ UNCHANGED <<o, calls, fetches, rw, cancel>>

Next == GrabCall \/ GrabIterate

Spec == Init /\ [][Next]_vars

----------------------------------------------------------------------------
(* Vocabulary of the properties *)

DocIds(docs) == {r.id : r \in docs}

\* a series is dense iff count == to_id - from_id + 1 (an empty one counts as dense)
DenseSeries(docs) ==
    docs = {} \/ Cardinality(docs) = SetMax(DocIds(docs)) - SetMin(DocIds(docs)) + 1

\* a set of ids without a hole
IsInterval(I) == I = {} \/ \A i \in SetMin(I)..SetMax(I) : i \in I

\* the documents this grab has added to its pair's series
Inserted == db[g.pair].docs \ pre

\* the rows of every dataframe this grab has handed to insert_docs
HandedRows == UNION {{commits[k].df[j] : j \in DOMAIN commits[k].df} : k \in DOMAIN commits}

Finished == pc \in {"returned", "raised"}

\* the step is the pass through grab's loop for the chunk df
StepFor(df) ==
    \E s \in {GrabStep(db, g, df)} :
        /\ db' = s.db
        /\ g' = s.g
        /\ pc' = s.pc
        /\ err' = s.err
        /\ commits' = commits \o s.handed

\* the dataframes whose insert went through
Committed ==
    IF err = "DUPLICATE" THEN SubSeq(commits, 1, Len(commits) - 1) ELSE commits

----------------------------------------------------------------------------
(* Properties checked under Spec *)

\* C1: if the symbol's series was empty or dense when grab was called, then
\* whenever grab returns normally the series is again empty or dense, whatever
\* the exchange answered.
C1_DensityPreserved ==
    (pc = "returned" /\ DenseSeries(pre)) => DenseSeries(db[g.pair].docs)

\* C1 witness: grab returned normally after adding documents to a non-empty
\* dense series.
C1_Witness ==
    pc = "returned" /\ pre # {} /\ DenseSeries(pre) /\ Inserted # {}

\* C2: every record handed to insert_docs by grab(from_id=f, to_id=t) has
\* f < id when f was given and id < t when t was given, on every insert path.
C2_IdBoundsExclusive ==
    \A r \in HandedRows :
        /\ g.args.from_id # None => g.args.from_id < r.id
        /\ g.args.to_id # None => r.id < g.args.to_id

\* C2 witness: a grab given both ids has returned after inserting a record
\* (the end id was found and cut off, the start id not yet reached).
C2_Witness ==
    /\ g.args.from_id # None
    /\ g.args.to_id # None
    /\ pc = "returned"
    /\ Inserted # {}

\* C3: the exact dataframe passed to insert_docs, at each of the three insert
\* sites, satisfies count == to_id - from_id + 1 for the from_id and to_id that
\* df_history_info reads off it.
C3_HandedChunksVerified ==
    \A k \in DOMAIN commits :
        LET info == df_history_info(commits[k].df)
        IN  /\ commits[k].df # <<>>
            /\ info.count = info.to_id - info.from_id + 1

\* C3 witness: one grab has inserted at the normal commit and then at the
\* start-date termination.
C3_Witness ==
    /\ Len(commits) >= 2
    /\ commits[1].site = "commit"
    /\ commits[Len(commits)].site = "start_ts"
    /\ pc = "returned"

\* C5 as stated: after any grab returns normally, the ids it inserted form a
\* single contiguous interval.
C5_Original ==
    pc = "returned" => IsInterval(DocIds(Inserted))

\* the calls whose inserts all fall on one side of what was stored: the series
\* was empty, or to_id is at most its smallest id, or from_id at least its largest
OneSided ==
    \/ pre = {}
    \/ g.args.to_id # None /\ g.args.to_id <= SetMin(DocIds(pre))
    \/ g.args.from_id # None /\ g.args.from_id >= SetMax(DocIds(pre))

\* C5 amended: after a grab returns normally, the ids it inserted form a single
\* contiguous interval provided the series was empty before the call, or to_id
\* was given and is at most the smallest stored id, or from_id was given and is
\* at least the largest stored id.
C5_ContiguousWhenOneSided ==
    (pc = "returned" /\ OneSided) => IsInterval(DocIds(Inserted))

\* C5 witness: a head grab above a stored series returned after two commits.
C5_Witness ==
    /\ pc = "returned"
    /\ pre # {}
    /\ g.args.from_id # None
    /\ g.args.from_id >= SetMax(DocIds(pre))
    /\ Len(commits) >= 2

\* C7: when every response lay inside the requested window, every record
\* handed to insert_docs has from_ts <= ts when from_ts was given and
\* ts <= to_ts when to_ts was given, with or without from_id / to_id.
C7_TsBounds ==
    inw => \A r \in HandedRows :
              /\ g.args.from_ts # None => g.args.from_ts <= r.ts
              /\ g.args.to_ts # None => r.ts <= g.args.to_ts

\* C7 witness: a grab given both dates and a start id has committed twice from
\* in-window responses.
C7_Witness ==
    /\ inw
    /\ g.args.from_ts # None
    /\ g.args.to_ts # None
    /\ g.args.from_id # None
    /\ Len(commits) >= 2

\* C10: grab fails with CONSISTENCY_BROKEN exactly when its loop ended, it
\* inserted at least one record and the series is not dense; a grab that
\* inserted nothing runs no whole-series check and does not fail that way.
C10_ConsistencyBroken ==
    Finished =>
        /\ (err = "CONSISTENCY_BROKEN") <=>
              /\ err \notin {"BAD_RANGE", "DUPLICATE"}
              /\ Inserted # {}
              /\ ~DenseSeries(db[g.pair].docs)
        /\ Inserted = {} => (colcheck = "none" /\ err # "CONSISTENCY_BROKEN")
        /\ (Inserted # {} /\ err \notin {"BAD_RANGE", "DUPLICATE"}) => colcheck # "none"

\* C10 witness: a grab has failed with CONSISTENCY_BROKEN.
C10_Witness ==
    pc = "raised" /\ err = "CONSISTENCY_BROKEN" /\ Inserted # {}

\* a pass through the loop body that ends at "Anchor id is missing - aborting"
MissingAnchor == pc = "loop" /\ lastsite' = "missing_anchor"

\* C11 as stated: when a non-empty chunk fetched while recording with
\* anchor_id set has no row with id >= anchor_id, grab inserts nothing from it,
\* fetches no more and returns normally with a dense series.
C11_Original ==
    [][MissingAnchor =>
        /\ db' = db
        /\ commits' = commits
        /\ pc' = "returned"
        /\ DenseSeries(db'[g.pair].docs)]_vars

\* C11 amended: when a non-empty chunk fetched while recording with anchor_id
\* set has no row with id >= anchor_id, grab inserts nothing from it and
\* fetches no more; it then returns normally if the series is dense and fails
\* with CONSISTENCY_BROKEN if it is not.
C11_MissingAnchorEndsLoop ==
    [][MissingAnchor =>
        /\ db' = db
        /\ commits' = commits
        /\ IF DenseSeries(db[g.pair].docs)
           THEN pc' = "returned" /\ err' = ""
           ELSE pc' = "raised" /\ err' = "CONSISTENCY_BROKEN"]_vars

\* C11 witness: a grab that had committed a chunk met a chunk without the
\* anchor and returned normally.
C11_Witness ==
    /\ lastsite = "missing_anchor"
    /\ pc = "returned"
    /\ Len(commits) >= 1
    /\ Inserted # {}

\* no id is stored twice in the series docs
UniqueIds(docs) == \A r, s \in docs : r.id = s.id => r = s

\* the inserts that went through brought each id once: no id twice in one
\* dataframe, none in two dataframes, none that was stored before the call
InsertedOnce ==
    \A k \in DOMAIN Committed :
        /\ \A i, j \in DOMAIN Committed[k].df :
              i # j => Committed[k].df[i].id # Committed[k].df[j].id
        /\ IdsOf(Committed[k].df) \cap DocIds(pre) = {}
        /\ \A j \in 1..(k - 1) : IdsOf(Committed[k].df) \cap IdsOf(Committed[j].df) = {}

\* a pass through the loop that hands insert_docs a dataframe holding an id
\* already in the series
DuplicateInsert ==
    /\ pc = "loop"
    /\ Len(commits') = Len(commits) + 1
    /\ IdsOf(commits'[Len(commits')].df) \cap DocIds(db[g.pair].docs) # {}

\* C13: in every reachable state each series holds each id at most once and
\* every insert that went through brought only ids that were not stored; an
\* insert of a dataframe holding an id already in the series fails with
\* DUPLICATE, and that failure ends the grab.
C13_AtMostOnce ==
    /\ [](\A p \in Pairs : UniqueIds(db[p].docs))
    /\ []InsertedOnce
    /\ [][DuplicateInsert => pc' = "raised" /\ err' = "DUPLICATE"]_vars

\* C13 witness: a grab that had inserted a dataframe failed with DUPLICATE on
\* a later one.
C13_Witness ==
    /\ pc = "raised"
    /\ err = "DUPLICATE"
    /\ Len(commits) >= 2
    /\ IdsOf(commits[Len(commits)].df) \cap DocIds(db[g.pair].docs) # {}

\* a step in which grab is called
GrabCalled == pc = "idle" /\ pc' \in {"loop", "raised"}

\* the range the call just made was given is empty: its dates after the
\* defaults, or its two ids
BadRange ==
    LET a == g'.args
        from_ts == IF a.from_ts = None THEN 0 ELSE a.from_ts
        to_ts == IF a.to_ts = None THEN now_ts ELSE a.to_ts
    IN  \/ to_ts <= from_ts
        \/ a.from_id # None /\ a.to_id # None /\ a.to_id <= a.from_id

\* C15: grab fails with BAD_RANGE whenever to_ts <= from_ts after the missing
\* from_ts became 0 and the missing to_ts became now, or both ids are given
\* with to_id <= from_id (and on entry for no other reason); it then makes no
\* fetch and inserts no record.
C15_BadRange ==
    /\ [][GrabCalled =>
            /\ BadRange <=> (pc' = "raised" /\ err' = "BAD_RANGE")
            /\ BadRange => \A p \in Pairs : db'[p].docs = db[p].docs]_vars
    /\ [](err = "BAD_RANGE" => pc # "loop" /\ commits = <<>> /\ Inserted = {})

\* C15 witness: a grab on a stored series, given proper dates and a to_id not
\* above its from_id, has failed with BAD_RANGE.
C15_Witness ==
    /\ pc = "raised"
    /\ err = "BAD_RANGE"
    /\ g.from_ts < g.to_ts
    /\ g.args.from_id # None
    /\ g.args.to_id # None
    /\ g.args.to_id <= g.args.from_id
    /\ pre # {}

\* C33: a call of grab that fails with BAD_RANGE leaves the set of series as
\* it was: it does not create the pair's collection when there was none.
C33_BadRangeCreatesNothing ==
    [][(GrabCalled /\ pc' = "raised" /\ err' = "BAD_RANGE") =>
            col_list(db') = col_list(db)]_vars

\* C24: when to_id is supplied recording is false at first and becomes true
\* only in an iteration whose chunk holds to_id; while it is false nothing
\* has been handed to insert_docs or inserted; and when the chunk that holds
\* to_id has no row with id < to_id the grab returns normally with nothing
\* committed. The last conjunct looks at the pass the loop makes from a state
\* of the seek phase for each chunk the exchange may answer with.
C24_SeekInsertsNothing ==
    /\ [][GrabCalled => (g'.recording <=> g'.args.to_id = None)]_vars
    /\ []((pc # "idle" /\ ~g.recording) => commits = <<>> /\ Inserted = {})
    /\ []((pc = "loop" /\ ~g.recording) =>
            \A df \in AnyChunk(feed, MaxLen) :
                \A s \in {GrabStep(db, g, df)} :
                    /\ s.g.recording <=> g.to_id \in IdsOf(df)
                    /\ (g.to_id \in IdsOf(df) /\ \A i \in IdsOf(df) : i >= g.to_id) =>
                          /\ s.pc = "returned"
                          /\ s.err = ""
                          /\ s.handed = <<>>
                          /\ s.db = db)

\* C24 witness: a grab given to_id on a stored series found to_id in a chunk
\* without older rows and returned with nothing committed.
C24_Witness ==
    /\ g.args.to_id # None
    /\ g.recording
    /\ lastsite = "nothing"
    /\ pc = "returned"
    /\ commits = <<>>
    /\ Inserted = {}
    /\ pre # {}

\* a pass through the loop body whose chunk is empty
EmptyAnswer == pc = "loop" /\ lastsite' = "empty"

\* C25: on an empty chunk the loop is left, without error in the loop itself,
\* iff anything_recorded is true or window.from_ts = from_ts, and grab then
\* returns unless the check that follows a recording finds the series not
\* dense; otherwise the next fetch uses the window from
\* max(window.from_ts - max_window_size, from_ts) to the old window.from_ts,
\* with recording, anchor_id and the archive unchanged. Nothing is inserted
\* either way.
C25_EmptyChunkRule ==
    [][EmptyAnswer =>
        /\ db' = db
        /\ commits' = commits
        /\ pc' # "loop" <=> (g.anything_recorded \/ g.window.from_ts = g.from_ts)
        /\ pc' # "loop" =>
              /\ g' = g
              /\ pc' = "raised" =>
                    /\ err' = "CONSISTENCY_BROKEN"
                    /\ g.anything_recorded
                    /\ ~DenseSeries(db[g.pair].docs)
        /\ pc' = "loop" =>
              g' = [g EXCEPT !.window =
                        [from_ts |-> Max(g.window.from_ts - max_window_size, g.from_ts),
                         to_ts |-> g.window.from_ts,
                         anchor_id |-> g.window.anchor_id]]]_vars

\* C25 witness: a grab still looking for its to_id got an empty chunk above
\* its start date and moved its window down.
C25_Witness ==
    /\ lastsite = "empty"
    /\ pc = "loop"
    /\ ~g.recording
    /\ g.window.to_ts < g.to_ts
    /\ g.window.from_ts = g.from_ts

\* the chunk as lines 593-602 leave it for the start checks; <<>> when the
\* loop ends there
Synchronised(gg, df) ==
    IF gg.window.anchor_id = None THEN df
    ELSE IF \E i \in IdsOf(df) : i >= gg.window.anchor_id
         THEN FilterIdLt(df, gg.window.anchor_id)
         ELSE <<>>

\* no row at or below the start id, but a row at or before the start date
StartDateOnly(gg, df) ==
    /\ df # <<>>
    /\ \A i \in IdsOf(df) : i > gg.from_id
    /\ \E t \in TsOf(df) : t <= gg.from_ts

\* C26: while recording, a chunk that after the anchor synchronisation has no
\* row with id <= from_id but has a row with ts <= from_ts is filtered to
\* ts >= from_ts, inserted only if non-empty and verified, and ends the grab,
\* whether or not from_id was supplied.
C26_StartDateEndsGrab ==
    (pc = "loop" /\ g.recording) =>
        \A df \in AnyChunk(feed, MaxLen) :
            \A df1 \in {Synchronised(g, df)} :
                StartDateOnly(g, df1) =>
                    \A s \in {GrabStep(db, g, df)} :
                        /\ s.pc # "loop"
                        /\ \A k \in DOMAIN s.handed :
                              s.handed[k].df = FilterTsGe(df1, g.from_ts)
                        /\ s.handed # <<>> <=>
                              /\ FilterTsGe(df1, g.from_ts) # <<>>
                              /\ verify_history_df(FilterTsGe(df1, g.from_ts))

\* the window of the fetch about to be made lies in [from_ts, to_ts] and is
\* no longer than max_window_size
WellFormedWindow(gg) ==
    /\ gg.from_ts <= gg.window.from_ts
    /\ gg.window.from_ts <= gg.window.to_ts
    /\ gg.window.to_ts <= gg.to_ts
    /\ gg.window.to_ts - gg.window.from_ts <= max_window_size

\* C27: as long as the exchange answers inside the window it was asked for,
\* every window passed to it during a grab satisfies
\* from_ts <= window.from_ts <= window.to_ts <= to_ts and
\* window.to_ts - window.from_ts <= max_window_size (30 days), and
\* window.to_ts never increases from one fetch to the next.
C27_WindowWellFormed ==
    /\ []((pc = "loop" /\ inw) => WellFormedWindow(g))
    /\ [][(pc = "loop" /\ pc' = "loop" /\ inw') =>
             g'.window.to_ts <= g.window.to_ts]_vars

\* C27 witness: a grab over more than one month has committed and is about to
\* fetch a window that starts below its first one.
C27_Witness ==
    /\ pc = "loop"
    /\ inw
    /\ commits # <<>>
    /\ g.window.to_ts < g.to_ts
    /\ g.window.from_ts < g.to_ts - max_window_size

----------------------------------------------------------------------------
(* Grabber.one: reconciles a requested period with the stored series        *)

\* the string commands accepted in place of a timestamp
Oldest == -2

Newest == -3

IsCommand(x) == x \in {Oldest, Newest}

\* a command is replaced by the matching bound of the collection
FillCommand(x, history_info) ==
    IF x = Oldest THEN history_info.from_ts
    ELSE IF x = Newest THEN history_info.to_ts
    ELSE x

\* mutant: the planner never asks for the records older than the series
one_without_tail(d, pair, from_ts, to_ts, drop) ==
    LET filled == col_non_empty(d, pair)
        info0 == col_history_info(d, pair)
        f1 == IF filled THEN FillCommand(from_ts, info0) ELSE from_ts
        t1 == IF filled THEN FillCommand(to_ts, info0) ELSE to_ts
        d1 == IF filled /\ drop THEN drop_col(d, pair) ELSE d
        f2 == IF f1 = None THEN 0 ELSE f1
        t2 == IF t1 = None THEN now_ts ELSE t1
        plan(e, tl, hd, fl, hi) ==
            [db |-> d1, from_ts |-> f2, to_ts |-> t2, err |-> e,
             tail |-> tl, head |-> hd, full |-> fl, history_info |-> hi]
    IN  IF col_non_empty(d1, pair)
        THEN LET history_info == col_history_info(d1, pair)
             IN  IF f2 >= t2
                 THEN plan("BAD_RANGE", FALSE, FALSE, FALSE, history_info)
                 ELSE plan("", FALSE, t2 > history_info.to_ts, FALSE, history_info)
        ELSE IF IsCommand(f2) \/ IsCommand(t2)
             THEN plan("EMPTY", FALSE, FALSE, FALSE, NoInfo)
             ELSE plan("", FALSE, FALSE, TRUE, NoInfo)

\* mutant: one does not compare the dates of a request on a stored series
one_range_unchecked(d, pair, from_ts, to_ts, drop) ==
    LET filled == col_non_empty(d, pair)
        info0 == col_history_info(d, pair)
        f1 == IF filled THEN FillCommand(from_ts, info0) ELSE from_ts
        t1 == IF filled THEN FillCommand(to_ts, info0) ELSE to_ts
        d1 == IF filled /\ drop THEN drop_col(d, pair) ELSE d
        f2 == IF f1 = None THEN 0 ELSE f1
        t2 == IF t1 = None THEN now_ts ELSE t1
        plan(e, tl, hd, fl, hi) ==
            [db |-> d1, from_ts |-> f2, to_ts |-> t2, err |-> e,
             tail |-> tl, head |-> hd, full |-> fl, history_info |-> hi]
    IN  IF col_non_empty(d1, pair)
        THEN LET history_info == col_history_info(d1, pair)
             IN  plan("", f2 < history_info.from_ts,
                      t2 > history_info.to_ts, FALSE, history_info)
        ELSE IF IsCommand(f2) \/ IsCommand(t2)
             THEN plan("EMPTY", FALSE, FALSE, FALSE, NoInfo)
             ELSE plan("", FALSE, FALSE, TRUE, NoInfo)

\* one(pair, from_ts, to_ts, drop) up to its first call of grab: the database
\* after the optional drop, the period after commands and defaults, the
\* exception raised if any, and which of the tail, head and full grabs it
\* is going to make, with the bounds of the collection it read for them
one(d, pair, from_ts, to_ts, drop) ==
    LET filled == col_non_empty(d, pair)
        info0 == col_history_info(d, pair)
        f1 == IF filled THEN FillCommand(from_ts, info0) ELSE from_ts
        t1 == IF filled THEN FillCommand(to_ts, info0) ELSE to_ts
        d1 == IF filled /\ drop THEN drop_col(d, pair) ELSE d
        f2 == IF f1 = None THEN 0 ELSE f1
        t2 == IF t1 = None THEN now_ts ELSE t1
        plan(e, tl, hd, fl, hi) ==
            [db |-> d1, from_ts |-> f2, to_ts |-> t2, err |-> e,
             tail |-> tl, head |-> hd, full |-> fl, history_info |-> hi]
    IN  IF col_non_empty(d1, pair)
        THEN LET history_info == col_history_info(d1, pair)
             IN  IF f2 >= t2
                 THEN plan("BAD_RANGE", FALSE, FALSE, FALSE, history_info)
                 ELSE plan("", f2 < history_info.from_ts,
                           t2 > history_info.to_ts, FALSE, history_info)
        ELSE IF IsCommand(f2) \/ IsCommand(t2)
             THEN plan("EMPTY", FALSE, FALSE, FALSE, NoInfo)
             ELSE plan("", FALSE, FALSE, TRUE, NoInfo)

\* what a finished call of one leaves in the log
CallRecord(oo, e, n, f) ==
    [pair |-> oo.pair, from_ts |-> oo.from_ts, to_ts |-> oo.to_ts, drop |-> oo.drop,
     before |-> oo.docs0, after |-> db[oo.pair].docs, err |-> e,
     handed |-> n, fetched |-> f]

\* one's frame while it runs
OneFrame(pair, from_ts, to_ts, drop, p, stage) ==
    [active |-> TRUE, pair |-> pair, from_ts |-> from_ts, to_ts |-> to_ts,
     drop |-> drop, rfrom_ts |-> p.from_ts, rto_ts |-> p.to_ts,
     history_info |-> p.history_info, head |-> p.head, stage |-> stage,
     docs0 |-> db[pair].docs, handed |-> 0, fetched |-> FALSE]

\* mutant: the head grab is not given the newest stored id
EnterHead_without_from_id(pair, history_info, to_ts) ==
    EnterGrab(db, pair, history_info.to_ts, None, to_ts, None)

\* the head grab, from the newest record the collection had when one read it
EnterHead(pair, history_info, to_ts) ==
    EnterGrab(db, pair, history_info.to_ts, history_info.to_id, to_ts, None)

\* one(pair, from_ts, to_ts, drop) is called and runs up to its first fetch
BeginOne(pair, from_ts, to_ts, drop) ==
    \E p \in {one(db, pair, from_ts, to_ts, drop)} :
        IF p.err # "" \/ ~(p.tail \/ p.head \/ p.full)
        THEN /\ db' = p.db
             /\ calls' = Append(calls, [pair |-> pair, from_ts |-> from_ts,
                                        to_ts |-> to_ts, drop |-> drop,
                                        before |-> db[pair].docs,
                                        after |-> p.db[pair].docs, err |-> p.err,
                                        handed |-> 0, fetched |-> FALSE])
             /\ UNCHANGED <<pc, g, o, err, pre, commits, inw, colcheck, fetches, lastsite>>
        ELSE /\ IF p.full
                THEN EnterGrab(p.db, pair, p.from_ts, None, p.to_ts, None)
                ELSE IF p.tail
                THEN EnterGrab(p.db, pair, p.from_ts, None,
                               p.history_info.from_ts, p.history_info.from_id)
                ELSE EnterHead(pair, p.history_info, p.to_ts)
             /\ o' = OneFrame(pair, from_ts, to_ts, drop, p,
                              IF p.full THEN "full" ELSE IF p.tail THEN "tail" ELSE "head")
             /\ UNCHANGED calls

\* a grab called by one has returned: the head grab follows the tail grab,
\* and one returns after its last grab
OneResume ==
    /\ pc = "returned"
    /\ o.active
    /\ IF o.stage = "tail" /\ o.head
       THEN /\ EnterHead(o.pair, o.history_info, o.rto_ts)
            /\ o' = [o EXCEPT !.stage = "head", !.handed = @ + Len(commits),
                              !.fetched = TRUE]
            /\ UNCHANGED calls
       ELSE /\ calls' = Append(calls, CallRecord(o, "", o.handed + Len(commits), TRUE))
            /\ o' = NoOne
            /\ pc' = "idle"
            /\ UNCHANGED <<db, g, err, pre, commits, inw, colcheck, fetches, lastsite>>
    /\ UNCHANGED <<feed, order, rw, cancel>>

\* a grab called by one has raised: the exception leaves one as well
OneRaise ==
    /\ pc = "raised"
    /\ o.active
    /\ calls' = Append(calls, CallRecord(o, err, o.handed + Len(commits),
                                         o.fetched \/ err # "BAD_RANGE"))
    /\ o' = NoOne
    /\ pc' = "idle"
    /\ UNCHANGED <<db, feed, order, g, err, pre, commits, inw, colcheck, fetches, lastsite, rw, cancel>>

----------------------------------------------------------------------------
(* Specification SpecOne: one, called twice for the same period, against    *)
(* an exchange whose list of trades does not change and which answers a     *)
(* fetch with the newest Cap trades of the window                           *)

\* trades are dated on a grid of half windows
HalfWindow == 15 * DAY

FeedStamps == {k * HalfWindow : k \in 0..MaxFeedTs}

\* trade ids are consecutive and timestamps never decrease with the id
StaticFeeds ==
    {f \in UNION {[1..n -> FeedStamps] : n \in 0..MaxFeed} :
        \A i \in DOMAIN f : i = 1 \/ f[i - 1] <= f[i]}

\* the ids in I listed in descending or ascending order
Listed(I, ord) ==
    [n \in 1..Cardinality(I) |->
        CHOOSE i \in I :
            Cardinality({j \in I : IF ord = "desc" THEN j > i ELSE j < i}) = n - 1]

\* the exchange's answer to marketTradeHist(pair, start, end)
marketTradeHist(f, ord, start, end) ==
    LET inside == {i \in DOMAIN f : start <= f[i] /\ f[i] <= end}
        newest == {i \in inside : Cardinality({j \in inside : j > i}) < Cap}
        ids == Listed(newest, ord)
    IN  [k \in DOMAIN ids |-> Trade(f, ids[k])]

get_chunk(f, ord, gg) == marketTradeHist(f, ord, gg.window.from_ts, gg.window.to_ts)

OneInit ==
    /\ feed \in StaticFeeds
    /\ order \in {"asc", "desc"}
    /\ \E docs \in {{}} \cup {{Trade(feed, i)} : i \in DOMAIN feed} :
          db = [p \in Pairs |-> IF p = GrabPair
                                THEN IF docs = {} THEN NoCol
                                     ELSE [exists |-> TRUE, docs |-> docs]
                                ELSE OtherCol]
    /\ pc = "idle"
    /\ g = NoGrab
    /\ o = NoOne
    /\ err = ""
    /\ pre = {}
    /\ commits = <<>>
    /\ inw = TRUE
    /\ colcheck = "none"
    /\ calls = <<>>
    /\ fetches = 0
    /\ lastsite = ""
    /\ rw = NoRow
    /\ cancel = FALSE

\* the caller invokes one(pair, from_ts, to_ts, drop)
OneCall ==
    /\ pc = "idle"
    /\ calls = <<>>
    /\ \E from_ts \in FeedStamps, to_ts \in FeedStamps, drop \in BOOLEAN :
          BeginOne(GrabPair, from_ts, to_ts, drop)
    /\ UNCHANGED <<feed, order, rw, cancel>>

\* the caller asks for the same period again
OneAgain ==
    /\ pc = "idle"
    /\ Len(calls) = 1
    /\ \E drop \in BOOLEAN :
          BeginOne(GrabPair, calls[1].from_ts, calls[1].to_ts, drop)
    /\ UNCHANGED <<feed, order, rw, cancel>>

\* one iteration of grab's loop on the exchange's answer
OneIterate ==
    /\ pc = "loop"
    /\ \E df \in {get_chunk(feed, order, g)} : Iterate(df)
    /\ fetches' = IF fetches < MaxFetches THEN fetches + 1 ELSE fetches
    /\ UNCHANGED <<o, calls, rw, cancel>>

OneNext == OneCall \/ OneAgain \/ OneIterate \/ OneResume \/ OneRaise

SpecOne == OneInit /\ [][OneNext]_vars

----------------------------------------------------------------------------
(* Claims about the static exchange                                         *)

\* the exchange's trades dated within [a, b]
Upstream(a, b) == {Trade(feed, i) : i \in {j \in DOMAIN feed : a <= feed[j] /\ feed[j] <= b}}

\* within [a, b] no two trades share a timestamp and no two consecutive
\* trades are further apart than one window
RegularFeed(a, b) ==
    \A i \in DOMAIN feed :
        (i > 1 /\ a <= feed[i - 1] /\ feed[i] <= b) =>
            (feed[i - 1] < feed[i] /\ feed[i] - feed[i - 1] <= max_window_size)

\* one's full grab of a period on an empty series
FullGrab == o.active /\ o.stage = "full" /\ g.from_ts < g.to_ts

\* the fetches a grab that makes progress needs at most: one per trade, one
\* per empty window, and the one that tells it to stop
FetchBound == MaxFeed + MaxFeedTs + 1

C8_Idempotent ==
    /\ (Len(calls) = 1 /\ o.active /\ ~o.drop) =>
          /\ fetches <= FetchBound
          /\ commits = <<>>
          /\ db[o.pair].docs = calls[1].after
    /\ (Len(calls) = 2 /\ ~calls[2].drop) =>
          /\ calls[2].handed = 0
          /\ calls[2].before = calls[1].after
          /\ calls[2].after = calls[1].after

\* C8 witness: the first call returned after two commits, and the second
\* call returned after fetching for a grab of its own.
C8_Witness ==
    /\ Len(calls) = 2
    /\ ~calls[2].drop
    /\ calls[1].err = ""
    /\ calls[1].handed >= 2
    /\ calls[2].fetched
    /\ calls[2].err = ""

\* the two calls are the decomposed and the full grab of one period [a, c]:
\* the first starts from the single trade dated b, a < b < c, and makes the
\* tail and the head grab, the second drops the series and grabs in full
Decomposed ==
    /\ Len(calls) = 2
    /\ ~calls[1].drop
    /\ calls[2].drop
    /\ \E i \in DOMAIN feed :
          /\ calls[1].before = {Trade(feed, i)}
          /\ calls[1].from_ts < feed[i]
          /\ feed[i] < calls[1].to_ts

BoundsOf(docs) ==
    col_history_info([db EXCEPT ![GrabPair] = [exists |-> TRUE, docs |-> docs]], GrabPair)

GrabArgs(from_ts, from_id, to_ts, to_id) ==
    [from_ts |-> from_ts, from_id |-> from_id, to_ts |-> to_ts, to_id |-> to_id]

\* a step in which one is called
OneCalled == pc = "idle" /\ (o'.active \/ Len(calls') = Len(calls) + 1)

\* what that call was given
Request ==
    IF o'.active
    THEN [from_ts |-> o'.from_ts, to_ts |-> o'.to_ts, drop |-> o'.drop]
    ELSE [from_ts |-> calls'[Len(calls')].from_ts, to_ts |-> calls'[Len(calls')].to_ts,
          drop |-> calls'[Len(calls')].drop]

\* the step issues this grab as the given stage of one
Issues(stage, args) == o'.active /\ o'.stage = stage /\ g'.args = args

\* the step ends one without a grab, a fetch or a change of the archive
OneEnds == ~o'.active /\ pc' = "idle" /\ db' = db /\ fetches' = fetches /\ commits' = commits

\* the call of one made by this step is rejected with BAD_RANGE, by one itself
\* (line 728) or by the grab it issues (line 499)
RejectedCall ==
    /\ OneCalled
    /\ IF o'.active
       THEN pc' = "raised" /\ err' = "BAD_RANGE"
       ELSE calls'[Len(calls')].err = "BAD_RANGE"

\* C32: a call of one that is rejected with BAD_RANGE leaves the archive as it
\* was before the call, with drop set or not: no series is dropped and no
\* collection is created.
C32_RejectedOneNoEffect == [][RejectedCall => db' = db]_vars

\* the step hands a dataframe to insert_docs
Handing == pc = "loop" /\ Len(commits') = Len(commits) + 1

C14_RangePlanner ==
    [][/\ OneCalled =>
            LET docs == IF Request.drop THEN {} ELSE db[GrabPair].docs
            IN  IF docs = {}
                THEN Issues("full", GrabArgs(Request.from_ts, None, Request.to_ts, None))
                ELSE Request.from_ts < Request.to_ts =>
                        LET b == BoundsOf(docs)
                        IN  IF Request.from_ts < b.from_ts
                            THEN Issues("tail", GrabArgs(Request.from_ts, None,
                                                         b.from_ts, b.from_id))
                            ELSE IF Request.to_ts > b.to_ts
                            THEN Issues("head", GrabArgs(b.to_ts, b.to_id,
                                                         Request.to_ts, None))
                            ELSE OneEnds
       /\ (pc = "returned" /\ o.active) =>
            IF o.stage = "tail" /\ o.to_ts > BoundsOf(o.docs0).to_ts
            THEN Issues("head", GrabArgs(BoundsOf(o.docs0).to_ts, BoundsOf(o.docs0).to_id,
                                         o.to_ts, None))
            ELSE OneEnds
      ]_vars

\* C14 witness: the head grab issued after the tail grab of the same call has
\* returned with new records.
C14_Witness ==
    /\ o.active
    /\ o.stage = "head"
    /\ o.handed >= 1
    /\ pc = "returned"
    /\ Inserted # {}

----------------------------------------------------------------------------
(* Grabber.row: one for each pair of a list, in turn; and specification     *)
(* SpecRow: one call of row against the exchange of SpecOne                 *)

\* the lists of pairs a caller passes: any pairs, each at most once
RowLists ==
    {l \in UNION {[1..n -> Pairs] : n \in 0..Cardinality(Pairs)} :
        \A i, j \in DOMAIN l : i # j => l[i] # l[j]}

\* what a caller passes as from_ts or to_ts: nothing, a command or a date
RowStamps == {None, Oldest, Newest} \cup Stamps

\* the exchange lists MaxFeed trades, the first at the epoch and the last
\* MaxFeedTs half windows later
RowFeeds ==
    {f \in StaticFeeds :
        Len(f) = MaxFeed /\ f[1] = 0 /\ f[MaxFeed] = MaxFeedTs * HalfWindow}

\* the series a pair has before the row: none, or one of the listed trades
RowCols(f) == {NoCol} \cup {[exists |-> TRUE, docs |-> {Trade(f, i)}] : i \in DOMAIN f}

RowInit ==
    /\ feed \in RowFeeds
    /\ order \in {"asc", "desc"}
    /\ db \in [Pairs -> RowCols(feed)]
    /\ pc = "idle"
    /\ g = NoGrab
    /\ o = NoOne
    /\ err = ""
    /\ pre = {}
    /\ commits = <<>>
    /\ inw = TRUE
    /\ colcheck = "none"
    /\ calls = <<>>
    /\ fetches = 0
    /\ lastsite = ""
    /\ rw = NoRow
    /\ cancel = FALSE

\* lines 779-780: row is given no pair and raises
RowEmpty ==
    /\ pc = "idle"
    /\ rw.stage = ""
    /\ rw' = [NoRow EXCEPT !.stage = "raised", !.err = "NO_PAIRS"]
    /\ UNCHANGED <<db, feed, order, pc, g, o, err, pre, commits, inw, colcheck, calls,
                   fetches, lastsite, cancel>>

\* lines 781-783: row(pairs, from_ts, to_ts, drop) is called and calls one for
\* the first pair
RowCall ==
    /\ pc = "idle"
    /\ rw.stage = ""
    /\ \E pairs \in RowLists \ {<<>>}, from_ts \in RowStamps, to_ts \in RowStamps,
          drop \in BOOLEAN :
          /\ rw' = [stage |-> "running", pairs |-> pairs, idx |-> 1, from_ts |-> from_ts,
                    to_ts |-> to_ts, drop |-> drop, err |-> "", base |-> 0]
          /\ BeginOne(pairs[1], from_ts, to_ts, drop)
    /\ UNCHANGED <<feed, order, cancel>>

\* one has returned to row or raised into it; base counts the calls of one
\* made before this row was called
OneLeft ==
    pc = "idle" /\ rw.stage = "running" /\ ~o.active /\ Len(calls) = rw.base + rw.idx

\* lines 781-783: one returned and the list has a next pair
RowNextPair ==
    /\ OneLeft
    /\ calls[Len(calls)].err = ""
    /\ rw.idx < Len(rw.pairs)
    /\ rw' = [rw EXCEPT !.idx = @ + 1]
    /\ BeginOne(rw.pairs[rw.idx + 1], rw.from_ts, rw.to_ts, rw.drop)
    /\ UNCHANGED <<feed, order, cancel>>

\* lines 781-783: one returned for the last pair and row returns
RowReturn ==
    /\ OneLeft
    /\ calls[Len(calls)].err = ""
    /\ rw.idx = Len(rw.pairs)
    /\ rw' = [rw EXCEPT !.stage = "returned"]
    /\ UNCHANGED <<db, feed, order, pc, g, o, err, pre, commits, inw, colcheck, calls,
                   fetches, lastsite, cancel>>

\* mutant: row swallows what one raises and goes on with the list
RowRaise_swallowed ==
    /\ OneLeft
    /\ calls[Len(calls)].err # ""
    /\ IF rw.idx < Len(rw.pairs)
       THEN /\ rw' = [rw EXCEPT !.idx = @ + 1]
            /\ BeginOne(rw.pairs[rw.idx + 1], rw.from_ts, rw.to_ts, rw.drop)
       ELSE /\ rw' = [rw EXCEPT !.stage = "returned"]
            /\ UNCHANGED <<db, pc, g, o, err, pre, commits, inw, colcheck, calls,
                           fetches, lastsite>>
    /\ UNCHANGED <<feed, order, cancel>>

\* line 783: the call of one is not guarded, so whatever one raises leaves row
RowRaise ==
    /\ OneLeft
    /\ calls[Len(calls)].err # ""
    /\ rw' = [rw EXCEPT !.stage = "raised", !.err = calls[Len(calls)].err]
    /\ UNCHANGED <<db, feed, order, pc, g, o, err, pre, commits, inw, colcheck, calls,
                   fetches, lastsite, cancel>>

RowNext ==
    \/ RowEmpty
    \/ RowCall
    \/ RowNextPair
    \/ RowReturn
    \/ RowRaise
    \/ OneIterate
    \/ OneResume
    \/ OneRaise

SpecRow == RowInit /\ [][RowNext]_vars

\* a command can be resolved only against a stored series
Resolvable(x, docs) == ~IsCommand(x) \/ docs # {}

\* the date one works with for the argument x, on a series docs
Resolved(x, docs, default) ==
    IF x = None THEN default
    ELSE IF x = Oldest THEN BoundsOf(docs).from_ts
    ELSE IF x = Newest THEN BoundsOf(docs).to_ts
    ELSE x

\* the request (from_ts, to_ts) on the series docs resolves to an empty period
EmptyPeriod(from_ts, to_ts, docs) ==
    /\ Resolvable(from_ts, docs)
    /\ Resolvable(to_ts, docs)
    /\ Resolved(from_ts, docs, 0) >= Resolved(to_ts, docs, now_ts)

\* C16: one rejects every request whose resolved from_ts >= to_ts with
\* BAD_RANGE, on an empty and on a non-empty series, and makes no fetch for it:
\* while one runs on such a request its grab has raised BAD_RANGE before any
\* fetch, and the call ends with BAD_RANGE, nothing fetched, nothing inserted.
C16_OneBadRange ==
    /\ (o.active /\ EmptyPeriod(o.from_ts, o.to_ts, o.docs0)) =>
            /\ pc = "raised"
            /\ err = "BAD_RANGE"
            /\ fetches = 0
            /\ commits = <<>>
    /\ \A k \in DOMAIN calls :
            EmptyPeriod(calls[k].from_ts, calls[k].to_ts, calls[k].before) =>
                /\ calls[k].err = "BAD_RANGE"
                /\ ~calls[k].fetched
                /\ calls[k].handed = 0
                /\ calls[k].after \subseteq calls[k].before

\* C16 witness: one, given no from_ts and the epoch as to_ts for a pair
\* without records, has failed with BAD_RANGE.
C16_Witness ==
    /\ Len(calls) >= 1
    /\ calls[1].from_ts = None
    /\ calls[1].to_ts = 0
    /\ calls[1].before = {}
    /\ calls[1].err = "BAD_RANGE"

\* row has returned or raised
RowFinished == rw.stage \in {"returned", "raised"} /\ rw.pairs # <<>>

\* C17: when one fails with BAD_RANGE for some pair, row still calls one for
\* every remaining pair of the list: a row that is over has made one call per
\* pair.
C17_RowSurvivesBadRange ==
    (RowFinished /\ \E k \in DOMAIN calls : calls[k].err = "BAD_RANGE") =>
        Len(calls) = Len(rw.pairs)

\* a grab of this row has failed with CONSISTENCY_BROKEN
ConsistencyBroken ==
    \/ pc = "raised" /\ err = "CONSISTENCY_BROKEN"
    \/ \E k \in DOMAIN calls : calls[k].err = "CONSISTENCY_BROKEN"

\* C18: once a grab for some pair has failed with CONSISTENCY_BROKEN, row calls
\* one for no later pair of the list: from then on there is no call of one, no
\* fetch and no change of any series, and row ends with that failure.
C18_ConsistencyBrokenStopsRow ==
    /\ [][ConsistencyBroken =>
            /\ db' = db
            /\ fetches' = fetches
            /\ commits' = commits
            /\ ~o'.active
            /\ rw'.idx = rw.idx
            /\ Len(calls') <= rw.idx]_vars
    /\ [](RowFinished /\ (\E k \in DOMAIN calls : calls[k].err = "CONSISTENCY_BROKEN") =>
            /\ rw.stage = "raised"
            /\ rw.err = "CONSISTENCY_BROKEN"
            /\ Len(calls) = rw.idx
            /\ calls[Len(calls)].err = "CONSISTENCY_BROKEN")

\* C18 witness: row has failed with CONSISTENCY_BROKEN on the first of two
\* pairs, after an insert.
C18_Witness ==
    /\ rw.stage = "raised"
    /\ rw.err = "CONSISTENCY_BROKEN"
    /\ rw.idx = 1
    /\ Len(rw.pairs) = 2
    /\ calls[1].handed >= 1

\* the pair one is called for, or running for, after the step
CurrentPair == rw'.pairs[rw'.idx]

\* the step is a call of one with drop on a stored series
DroppingCall == rw'.idx = rw.idx + 1 /\ rw'.drop /\ db[CurrentPair].docs # {}

\* C20: grab and one on a pair change the archive only by adding records to
\* that pair's series, or, for one with drop, by dropping that series first:
\* in every step the series of any other pair stays as it is, and the pair's
\* own series keeps every record it had unless the step is a call of one with
\* drop, which leaves it without records.
C20_ArchiveFrame ==
    [][\A p \in Pairs :
          \/ db'[p] = db[p]
          \/ /\ rw'.stage = "running"
             /\ p = CurrentPair
             /\ \/ db[p].docs \subseteq db'[p].docs
                \/ DroppingCall /\ db'[p].docs = {}]_vars

\* C20 witness: one with drop has replaced the stored series of a pair by
\* fetched records while the other pair has a stored series.
C20_Witness ==
    \E k \in DOMAIN calls :
        /\ calls[k].drop
        /\ calls[k].before # {}
        /\ calls[k].after # {}
        /\ calls[k].handed >= 1
        /\ \E p \in Pairs \ {calls[k].pair} : db[p].docs # {}

----------------------------------------------------------------------------
(* Specification SpecFlaky: one call of grab against the exchange of        *)
(* SpecOne when any call of the exchange, or the normalisation of its       *)
(* answer, may raise                                                        *)

\* mutant: get_chunk has no except clause
TryGetChunk_unguarded(f, ord, gg, raises) ==
    [raised |-> raises, df |-> IF raises THEN <<>> ELSE get_chunk(f, ord, gg)]

\* lines 405-422: get_chunk's try and except: whatever is raised inside the
\* try, the caller gets an empty dataframe and no exception
TryGetChunk(f, ord, gg, raises) ==
    [raised |-> FALSE, df |-> IF raises THEN <<>> ELSE get_chunk(f, ord, gg)]

\* the caller invokes grab(pair, from_ts, to_ts)
FlakyCall ==
    /\ pc = "idle"
    /\ \E from_ts \in FeedStamps, to_ts \in FeedStamps :
          EnterGrab(db, GrabPair, from_ts, None, to_ts, None)
    /\ UNCHANGED <<feed, order, o, calls, rw, cancel>>

\* one iteration of grab's loop: line 534 calls get_chunk without a handler,
\* so an exception leaving get_chunk would leave grab
FlakyIterate ==
    /\ pc = "loop"
    /\ \E raises \in BOOLEAN :
          \E r \in {TryGetChunk(feed, order, g, raises)} :
              IF r.raised
              THEN /\ pc' = "raised"
                   /\ err' = "UPSTREAM"
                   /\ lastsite' = "upstream_error"
                   /\ UNCHANGED <<db, feed, order, g, pre, commits, inw, colcheck>>
              ELSE IterateAt(r.df, IF raises THEN "upstream_error"
                                   ELSE LoopBody(g, r.df).site)
    /\ fetches' = IF fetches < MaxFetches THEN fetches + 1 ELSE fetches
    /\ UNCHANGED <<o, calls, rw, cancel>>

FlakyNext == FlakyCall \/ FlakyIterate

SpecFlaky == OneInit /\ [][FlakyNext]_vars

\* C19: whenever the call of the exchange or the normalisation of its answer
\* raises, get_chunk returns an empty chunk: no such error leaves grab, and the
\* iteration does exactly what it does for an empty answer.
C19_UpstreamSwallowed ==
    /\ [](err # "UPSTREAM")
    /\ [][(pc = "loop" /\ lastsite' = "upstream_error") => StepFor(<<>>)]_vars

\* C19 witness: the exchange listed trades in the window, the fetch raised,
\* and grab went on to an older window as after an empty answer.
C19_Witness ==
    /\ lastsite = "upstream_error"
    /\ pc = "loop"
    /\ g.window.to_ts < g.to_ts
    /\ \E i \in DOMAIN feed : g.window.to_ts < feed[i] /\ feed[i] <= g.to_ts

----------------------------------------------------------------------------
(* Specification SpecArchive: create_col called on the archive directly     *)

\* the caller invokes create_col(cname); the log keeps what it found, what
\* it left and what it raised
ArchiveCreate ==
    /\ pc = "idle"
    /\ Len(calls) < MaxOps
    /\ \E cname \in Pairs :
          \E r \in {create_col(db, cname)} :
              /\ db' = r.db
              /\ calls' = Append(calls, [pair |-> cname, before |-> db[cname],
                                         after |-> r.db[cname], err |-> r.err])
    /\ UNCHANGED <<feed, order, pc, g, o, err, pre, commits, inw, colcheck, fetches,
                   lastsite, rw, cancel>>

ArchiveInit ==
    /\ db \in [Pairs -> InitCols]
    /\ feed = SpecFeed
    /\ order = "desc"
    /\ pc = "idle"
    /\ g = NoGrab
    /\ o = NoOne
    /\ err = ""
    /\ pre = {}
    /\ commits = <<>>
    /\ inw = TRUE
    /\ colcheck = "none"
    /\ calls = <<>>
    /\ fetches = 0
    /\ lastsite = ""
    /\ rw = NoRow
    /\ cancel = FALSE

ArchiveNext == ArchiveCreate

SpecArchive == ArchiveInit /\ [][ArchiveNext]_vars

\* C21: create_col is idempotent: called for a pair whose collection exists
\* it succeeds without error and leaves the records as they are, and a second
\* call has the effect of the first.
C21_CreateIdempotent ==
    \A k \in DOMAIN calls :
        /\ calls[k].err = ""
        /\ calls[k].before.exists => calls[k].after = calls[k].before

----------------------------------------------------------------------------
(* Specification SpecCancel: one call of grab against the exchange of       *)
(* SpecOne, which the caller may ask to stop while it runs                  *)

\* the caller raises the signal; nothing in grab (lines 520-675) reads it
RaiseCancel ==
    /\ pc = "loop"
    /\ ~cancel
    /\ cancel' = TRUE
    /\ UNCHANGED <<db, feed, order, pc, g, o, err, pre, commits, inw, colcheck, calls,
                   fetches, lastsite, rw>>

CancelNext == FlakyCall \/ OneIterate \/ RaiseCancel

SpecCancel == OneInit /\ [][CancelNext]_vars

\* C22: once the cancellation signal is raised during a grab, the loop stops
\* before the next fetch: no fetch and no insert follows the signal.
C22_CancelStopsLoop ==
    [][cancel => fetches' = fetches /\ commits' = commits /\ db' = db]_vars

----------------------------------------------------------------------------
(* Grabber.ring: row(pairs, to_ts=now_ts()) on repeat; and specification    *)
(* SpecRing: one call of ring against the exchange of SpecOne               *)

\* lines 804-806: a turn of ring's loop calls row(pairs, to_ts=now_ts()),
\* which calls one for the first pair
RingRow(pairs, base) ==
    /\ rw' = [stage |-> "running", pairs |-> pairs, idx |-> 1, from_ts |-> None,
              to_ts |-> now_ts, drop |-> FALSE, err |-> "", base |-> base]
    /\ BeginOne(pairs[1], None, now_ts, FALSE)

\* ring(pairs) is called with a list of pairs
RingCall ==
    /\ pc = "idle"
    /\ rw.stage = ""
    /\ \E pairs \in RowLists \ {<<>>} : RingRow(pairs, 0)
    /\ UNCHANGED <<feed, order, cancel>>

\* lines 804-808: row has returned, ring sleeps and calls it again
RingAgain ==
    /\ pc = "idle"
    /\ rw.stage = "returned"
    /\ Len(calls) < MaxRing * Len(rw.pairs)
    /\ RingRow(rw.pairs, Len(calls))
    /\ UNCHANGED <<feed, order, cancel>>

RingNext ==
    \/ RingCall
    \/ RingAgain
    \/ RowNextPair
    \/ RowReturn
    \/ RowRaise
    \/ OneIterate
    \/ OneResume
    \/ OneRaise

SpecRing == RowInit /\ [][RingNext]_vars

\* C23: in every turn of ring, for each pair whose series is not empty, only
\* the head grab is issued, from the newest stored id; no tail grab is issued
\* and no record older than the oldest stored one is inserted.
C23_RingHeadOnly ==
    (o.active /\ o.docs0 # {}) =>
        /\ o.stage = "head"
        /\ g.args.from_id = BoundsOf(o.docs0).to_id
        /\ \A r \in db[o.pair].docs : r.id >= BoundsOf(o.docs0).from_id

----------------------------------------------------------------------------
(* Specification SpecWide: grab on an absent collection, against an          *)
(* arbitrary exchange that lists more trades in longer responses            *)

\* the trades of one busy month: all later than the earliest start date a
\* caller can give, and all within one window of each other
WideFeed == [i \in 1..WideId |-> IF i = WideId THEN 2 * MONTH ELSE MONTH]

\* responses that list no trade twice
WideChunks ==
    {df \in AnyChunk(WideFeed, WideLen) :
        \A j, k \in DOMAIN df : j # k => df[j].id # df[k].id}

WideInit ==
    /\ db = [p \in Pairs |-> IF p = GrabPair THEN NoCol ELSE OtherCol]
    /\ feed = WideFeed
    /\ order = "desc"
    /\ pc = "idle"
    /\ g = NoGrab
    /\ o = NoOne
    /\ err = ""
    /\ pre = {}
    /\ commits = <<>>
    /\ inw = TRUE
    /\ colcheck = "none"
    /\ calls = <<>>
    /\ fetches = 0
    /\ lastsite = ""
    /\ rw = NoRow
    /\ cancel = FALSE

\* the caller invokes grab(pair, from_ts, to_ts=to_ts) with dates only
WideCall ==
    /\ pc = "idle"
    /\ \E from_ts \in OptStamps, to_ts \in OptStamps :
          EnterGrab(db, GrabPair, from_ts, None, to_ts, None)
    /\ UNCHANGED <<feed, order, o, calls, rw, cancel>>

WideIterate ==
    /\ pc = "loop"
    /\ \E df \in WideChunks : Iterate(df)
    /\ UNCHANGED <<o, calls, fetches, rw, cancel>>

WideNext == WideCall \/ WideIterate

SpecWide == WideInit /\ [][WideNext]_vars

\* C4: for any two chunks committed by one grab, every id of the
\* later one is strictly smaller than every id of the earlier one.
C4_NewestToOldest ==
    \A j, k \in DOMAIN Committed :
        j < k => \A a \in IdsOf(Committed[j].df), b \in IdsOf(Committed[k].df) : b < a

\* a pass through the loop body whose chunk reaches the normal commit and
\* fails verify_history_df (line 652)
BrokenChunk == pc = "loop" /\ lastsite' = "broken"

\* C12: when the chunk reaching the normal commit fails verify_history_df, that
\* iteration inserts nothing, leaves anything_recorded and the archive as they
\* were, and the loop ends without another fetch.
C12_BrokenChunkRejected ==
    [][BrokenChunk =>
        /\ db' = db
        /\ commits' = commits
        /\ g'.anything_recorded = g.anything_recorded
        /\ pc' \in {"returned", "raised"}]_vars

\* C12 witness: a grab that had committed a chunk met a broken chunk at the
\* normal commit and its loop ended.
C12_Witness ==
    /\ lastsite = "broken"
    /\ Finished
    /\ Len(commits) >= 1
    /\ g.anything_recorded


\* the chunks this grab recorded on the normal commit path (lines 634-663)
NormalCommits == SelectSeq(Committed, LAMBDA c : c.site = "commit")

\* C28: anchor_id is unset until the first normal commit of a grab; after
\* each normal commit it equals the smallest id of the chunk committed last,
\* and so it strictly decreases from commit to commit.
C28_AnchorIsOldestId ==
    /\ []((pc = "loop" /\ NormalCommits = <<>>) => g.window.anchor_id = None)
    /\ []((pc = "loop" /\ NormalCommits # <<>>) =>
            g.window.anchor_id = SetMin(IdsOf(NormalCommits[Len(NormalCommits)].df)))
    /\ [][(pc = "loop" /\ pc' = "loop" /\ lastsite' = "commit"
           /\ g.window.anchor_id # None) =>
             g'.window.anchor_id < g.window.anchor_id]_vars

----------------------------------------------------------------------------
(* Specification SpecVerify: verify_history_df applied to one dataframe     *)

\* a dataframe of up to WideLen different trades in any order, with or without
\* gaps; it is held in commits, and the verdict goes to colcheck
VerifyInit ==
    /\ \E df \in WideChunks \ {<<>>} :
          commits = <<[site |-> "", df |-> df]>>
    /\ db = [p \in Pairs |-> IF p = GrabPair THEN NoCol ELSE OtherCol]
    /\ feed = WideFeed
    /\ order = "desc"
    /\ pc = "idle"
    /\ g = NoGrab
    /\ o = NoOne
    /\ err = ""
    /\ pre = {}
    /\ inw = TRUE
    /\ colcheck = "none"
    /\ calls = <<>>
    /\ fetches = 0
    /\ lastsite = ""
    /\ rw = NoRow
    /\ cancel = FALSE

\* verify_history_df(df) is called and returns
VerifyCall ==
    /\ pc = "idle"
    /\ colcheck' = IF verify_history_df(commits[1].df) THEN "true" ELSE "false"
    /\ pc' = "returned"
    /\ UNCHANGED <<db, feed, order, g, o, err, pre, commits, inw, calls, fetches, lastsite,
                   rw, cancel>>

VerifyNext == VerifyCall

SpecVerify == VerifyInit /\ [][VerifyNext]_vars

\* C29: for every non-empty chunk, whatever the order of its rows,
\* verify_history_df(chunk) is true iff count = max_id - min_id + 1, where
\* max_id and min_id are the largest and the smallest id in the chunk.
C29_VerifyAnyOrder ==
    pc = "returned" =>
        \A df \in {commits[1].df} :
            colcheck = "true" <=> Len(df) = SetMax(IdsOf(df)) - SetMin(IdsOf(df)) + 1

----------------------------------------------------------------------------
(* Specification SpecDirty: grab on an absent collection, against an         *)
(* exchange whose rows can carry a field that does not parse                *)

\* the values the clean columns of trade i can arrive with: as traded, or NaN
DirtyVals(i) == {i, NaN}

\* any sequence of at most maxlen rows, in any order, with gaps and repeats
DirtyChunks(f, maxlen) ==
    UNION {[1..n -> UNION {{Row(i, f[i], v) : v \in DirtyVals(i)} : i \in DOMAIN f}]
           : n \in 0..maxlen}

DirtyInit ==
    /\ db = [p \in Pairs |-> IF p = GrabPair THEN NoCol ELSE OtherCol]
    /\ feed = SpecFeed
    /\ order = "desc"
    /\ pc = "idle"
    /\ g = NoGrab
    /\ o = NoOne
    /\ err = ""
    /\ pre = {}
    /\ commits = <<>>
    /\ inw = TRUE
    /\ colcheck = "none"
    /\ calls = <<>>
    /\ fetches = 0
    /\ lastsite = ""
    /\ rw = NoRow
    /\ cancel = FALSE

\* the caller invokes grab(pair, from_ts, from_id) up to now
DirtyCall ==
    /\ pc = "idle"
    /\ \E from_ts \in OptStamps, from_id \in OptIds(feed) :
          EnterGrab(db, GrabPair, from_ts, from_id, None, None)
    /\ UNCHANGED <<feed, order, o, calls, rw, cancel>>

DirtyIterate ==
    /\ pc = "loop"
    /\ \E df \in DirtyChunks(feed, WideLen) : Iterate(df)
    /\ UNCHANGED <<o, calls, fetches, rw, cancel>>

DirtyNext == DirtyCall \/ DirtyIterate

SpecDirty == DirtyInit /\ [][DirtyNext]_vars

\* C30: every chunk grab hands to insert_many, on the normal commit path and
\* on both paths that end at the start id or the start date, has no row with
\* a NaN field and no two rows with the same id.
C30_CleanChunksOnly ==
    \A k \in DOMAIN commits :
        \A df \in {commits[k].df} :
            /\ \A j \in DOMAIN df : df[j].val # NaN
            /\ \A i, j \in DOMAIN df : i # j => df[i].id # df[j].id

----------------------------------------------------------------------------
(* Specification SpecLive: one call of grab against an exchange that        *)
(* answers every fetch, always inside the window it was asked for           *)

\* one pass through grab's loop on a response that lies inside the window;
\* fetches holds the parity of the number of fetches, so that every pass is a
\* step even when it leaves grab's own variables as they were
LiveIterate ==
    /\ pc = "loop"
    /\ \E df \in {c \in AnyChunk(feed, MaxLen) : InWindow(g, c)} : Iterate(df)
    /\ fetches' = 1 - fetches
    /\ UNCHANGED <<o, calls, rw, cancel>>

LiveNext == GrabCall \/ LiveIterate

\* the loop is a `while True` with nothing to wait for but the fetch, and the
\* exchange answers every fetch: a pass that can be made is made
SpecLive == Init /\ [][LiveNext]_vars /\ WF_vars(LiveIterate)

\* C31: against an exchange that answers every fetch inside the requested
\* window, and for every accepted combination of from_ts, from_id, to_ts and
\* to_id, grab makes finitely many fetches and then returns or raises.
C31_GrabTerminates == (pc = "loop") ~> Finished

============================================================================
